---- MODULE Spec2Model ----
(***************************************************************************)
(* Model of the OCN Registry contract wrapper, src/src/registry.ts         *)
(* (class Registry).  The wrapper holds a mode and an optional wallet;     *)
(* every method is an asynchronous call against a remote ledger.  The      *)
(* ledger, the signing library (lib/sign) and the type tables (types.ts)   *)
(* are not part of registry.ts and are modelled as its environment.        *)
(*                                                                         *)
(* Strings that the wrapper inspects (country codes, party ids) are        *)
(* sequences of character codes; hex strings are sequences of nibbles      *)
(* (the "0x" prefix is implicit).  A url is a record of its origin and of  *)
(* what follows the origin (path and query).                               *)
(***************************************************************************)
EXTENDS Integers, Sequences, FiniteSets, TLC

VARIABLES
    mode,           \* Registry.mode: "r" or "r+w"
    wallet,         \* Registry.wallet: the constructor's key (the spender), or NoKey
    pc,             \* position of the call: "idle", "waiting", "loop", "done"
    call,           \* the method last called and its arguments
    outcome,        \* what the call returned or threw
    txs,            \* write-transport calls issued by the call (this.registry.<write>(...))
    sigs,           \* signatures produced by the call (sign.<op>Raw(...))
    reads,          \* read-transport calls issued by the call, with their responses
    included,       \* whether tx.wait() confirmed the inclusion of the submitted tx
    operators,      \* getAllNodes/getAllParties: the list returned by the first read
    idx,            \* getAllNodes/getAllParties: position in that list
    acc,            \* getAllNodes: nodes; getAllParties: details
    nodeOf,         \* ledger: operator -> url
    nodeOperators,  \* ledger: list of node operators
    partyOf,        \* ledger: party address -> party details
    parties         \* ledger: list of party addresses

vars == <<mode, wallet, pc, call, outcome, txs, sigs, reads, included,
          operators, idx, acc, nodeOf, nodeOperators, partyOf, parties>>

callVars == <<pc, call, outcome, txs, sigs, reads, included, operators, idx, acc>>
ledgerVars == <<nodeOf, nodeOperators, partyOf, parties>>

----------------------------------------------------------------------------
(* Bounds of the model *)

\* longest countryCode / partyId string a caller passes
MaxStrLen == 3
\* longest operator list / party list the ledger holds
MaxListed == 2

----------------------------------------------------------------------------
(* Values *)

NoKey == ""
Keys == {"k0", "k1"}
BadKey == "not-a-key"

ZeroAddress == "0x0000000000000000000000000000000000000000"
Addr0 == "0xA0"
Addr1 == "0xA1"
\* what ethers.utils.getAddress accepts
ValidAddresses == {Addr0, Addr1, ZeroAddress}
\* truncated and non-hex strings
MalformedAddresses == {"0x123", "zz"}
\* addresses that own listings in the ledger
Listable == {Addr0, Addr1}

\* wallet.address of new ethers.Wallet(key)
AddressOf(key) == IF key = "k0" THEN Addr0 ELSE Addr1

ValidKey(key) == key \in Keys

\* character codes: D d E   and   a B
CountryAlphabet == {68, 100, 69}
PartyAlphabet == {97, 66}

StringsOver(alphabet, n) == UNION {[1..k -> alphabet] : k \in 0..n}

EmptyUrl == [origin |-> "", rest |-> ""]
Origins == {"https://node.example.org", "http://localhost:8080"}
\* well-formed absolute urls, with and without path/query, and a string with no scheme
Domains ==
    [origin : Origins, rest : {"", "/path?x=1"}] \cup {[origin |-> "", rest |-> "node.example.org"]}

RoleLists == {<<0>>, <<1, 7>>}
ModuleLists == {<<>>, <<2>>}

----------------------------------------------------------------------------
(* Helpers of Registry *)

\* String.prototype.toUpperCase on one character code
UpperChar(c) == IF c >= 97 /\ c <= 122 THEN c - 32 ELSE c

toUpperCase(str) == [i \in 1..Len(str) |-> UpperChar(str[i])]

\* web3-utils toHex of a string: two hex digits per byte
RECURSIVE utf8ToHex(_)
utf8ToHex(str) ==
    IF str = <<>> THEN <<>>
    ELSE <<Head(str) \div 16, Head(str) % 16>> \o utf8ToHex(Tail(str))

\* toHex without the upper-casing
toHexLower(str) == utf8ToHex(str)

\* Registry.toHex
toHex(str) == utf8ToHex(toUpperCase(str))

\* ethers.utils.toUtf8String on the bytes of a hex string (one-byte characters)
RECURSIVE toUtf8String(_)
toUtf8String(hex) ==
    IF Len(hex) < 2 THEN <<>>
    ELSE <<hex[1] * 16 + hex[2]>> \o toUtf8String(SubSeq(hex, 3, Len(hex)))

\* Registry.verifyStringLen: TRUE when it does not throw
verifyStringLen(str, len) == Len(str) = len

\* Registry.verifyAddress: TRUE when it does not throw
verifyAddress(address) == address \in ValidAddresses

\* verifyWritable that never throws
verifyWritableAlways == TRUE

\* Registry.verifyWritable: TRUE when it does not throw
verifyWritable == mode = "r+w"

\* new URL(domain) succeeds
URLParses(domain) == domain.origin # ""

\* new URL(domain).origin
URLOrigin(domain) == [origin |-> domain.origin, rest |-> ""]

----------------------------------------------------------------------------
(* What a call returns or throws *)

Pending == [kind |-> "none", err |-> "", value |-> <<>>]
Error(e) == [kind |-> "error", err |-> e, value |-> <<>>]
Value(v) == [kind |-> "value", err |-> "", value |-> v]
Undefined == [kind |-> "undefined", err |-> "", value |-> <<>>]

Begin(op, input) == call' = [op |-> op, input |-> input]

\* the call's position after the code that runs up to its next await (or its end)
Finish(o, p, t, s, r) ==
    /\ outcome' = o
    /\ pc' = p
    /\ txs' = t
    /\ sigs' = s
    /\ reads' = r
    /\ included' = FALSE
    /\ operators' = <<>>
    /\ idx' = 0
    /\ acc' = <<>>

\* a throw before any transport call and before any signature
Fail(e) == Finish(Error(e), "done", <<>>, <<>>, <<>>)

----------------------------------------------------------------------------
(* lib/sign: the operation builders.  A signature is modelled by what was   *)
(* signed and by which key.                                                *)

Sign(kind, args, key) == [signer |-> key, kind |-> kind, args |-> args]

sign_setNodeRaw(domain, w) == Sign("setNodeRaw", <<domain>>, w)
sign_deleteNodeRaw(w) == Sign("deleteNodeRaw", <<>>, w)
sign_setPartyRaw(country, id, roles, operator, w) ==
    Sign("setPartyRaw", <<country, id, roles, operator>>, w)
sign_setPartyModulesRaw(sender, receiver, w) ==
    Sign("setPartyModulesRaw", <<sender, receiver>>, w)
sign_deletePartyRaw(w) == Sign("deletePartyRaw", <<>>, w)

----------------------------------------------------------------------------
(* Write methods *)

\* this.registry.<method>(...params): the contract is connected to this.wallet.
\* The submission is accepted (a tx to wait on) or rejected (the call throws).
SubmitTx(method, params, s) ==
    LET tx == [method |-> method, sender |-> wallet, params |-> params]
    IN \E accepted \in BOOLEAN :
         IF accepted
         THEN Finish(Pending, "waiting", <<tx>>, s, <<>>)
         ELSE Finish(Error("TransportFailure"), "done", <<tx>>, s, <<>>)

\* arguments of this.registry.setNode(...)
setNodeParams(domain) == <<URLOrigin(domain)>>

\* the spender's address in place of the signer's
deleteNodeRawParamsSpender(w, sig) == <<AddressOf(wallet), sig>>

\* id and country in the other order than they were signed
setPartyRawParamsSwapped(w, country, id, roles, operator, sig) ==
    <<AddressOf(w), id, country, roles, operator, sig>>

\* arguments of this.registry.setNodeRaw(...)
setNodeRawParams(w, domain, sig) == <<AddressOf(w), domain, sig>>
\* arguments of this.registry.deleteNodeRaw(...)
deleteNodeRawParams(w, sig) == <<AddressOf(w), sig>>
\* arguments of this.registry.setParty(...)
setPartyParams(countryCode, partyId, roles, operator) ==
    <<toHex(countryCode), toHex(partyId), roles, operator>>
\* arguments of this.registry.setPartyRaw(...)
setPartyRawParams(w, country, id, roles, operator, sig) ==
    <<AddressOf(w), country, id, roles, operator, sig>>
\* arguments of this.registry.setPartyModulesRaw(...)
setPartyModulesRawParams(w, sender, receiver, sig) == <<AddressOf(w), sender, receiver, sig>>
\* arguments of this.registry.deletePartyRaw(...)
deletePartyRawParams(w, sig) == <<AddressOf(w), sig>>

setNode(domain) ==
    /\ pc = "idle"
    /\ Begin("setNode", <<domain>>)
    /\ IF ~verifyWritable THEN Fail("NotWritable")
       ELSE IF ~URLParses(domain) THEN Fail("InvalidURL")
       ELSE SubmitTx("setNode", setNodeParams(domain), <<>>)
    /\ UNCHANGED <<mode, wallet, ledgerVars>>

setNodeRaw(domain, signer) ==
    /\ pc = "idle"
    /\ Begin("setNodeRaw", <<domain, signer>>)
    /\ IF ~verifyWritable THEN Fail("NotWritable")
       ELSE IF ~ValidKey(signer) THEN Fail("SigningFailure")
       ELSE LET sig == sign_setNodeRaw(domain, signer)
            IN SubmitTx("setNodeRaw", setNodeRawParams(signer, domain, sig), <<sig>>)
    /\ UNCHANGED <<mode, wallet, ledgerVars>>

deleteNode ==
    /\ pc = "idle"
    /\ Begin("deleteNode", <<>>)
    /\ IF ~verifyWritable THEN Fail("NotWritable")
       ELSE SubmitTx("deleteNode", <<>>, <<>>)
    /\ UNCHANGED <<mode, wallet, ledgerVars>>

deleteNodeRaw(signer) ==
    /\ pc = "idle"
    /\ Begin("deleteNodeRaw", <<signer>>)
    /\ IF ~verifyWritable THEN Fail("NotWritable")
       ELSE IF ~ValidKey(signer) THEN Fail("SigningFailure")
       ELSE LET sig == sign_deleteNodeRaw(signer)
            IN SubmitTx("deleteNodeRaw", deleteNodeRawParams(signer, sig), <<sig>>)
    /\ UNCHANGED <<mode, wallet, ledgerVars>>

setParty(countryCode, partyId, roles, operator) ==
    /\ pc = "idle"
    /\ Begin("setParty", <<countryCode, partyId, roles, operator>>)
    /\ IF ~verifyWritable THEN Fail("NotWritable")
       ELSE IF ~verifyStringLen(countryCode, 2) THEN Fail("InvalidArgument")
       ELSE IF ~verifyStringLen(partyId, 3) THEN Fail("InvalidArgument")
       ELSE IF ~verifyAddress(operator) THEN Fail("InvalidArgument")
       ELSE SubmitTx("setParty", setPartyParams(countryCode, partyId, roles, operator), <<>>)
    /\ UNCHANGED <<mode, wallet, ledgerVars>>

setPartyRaw(countryCode, partyId, roles, operator, signer) ==
    /\ pc = "idle"
    /\ Begin("setPartyRaw", <<countryCode, partyId, roles, operator, signer>>)
    /\ IF ~verifyWritable THEN Fail("NotWritable")
       ELSE IF ~verifyStringLen(countryCode, 2) THEN Fail("InvalidArgument")
       ELSE IF ~verifyStringLen(partyId, 3) THEN Fail("InvalidArgument")
       ELSE IF ~verifyAddress(operator) THEN Fail("InvalidArgument")
       ELSE IF ~ValidKey(signer) THEN Fail("SigningFailure")
       ELSE LET country == toHex(countryCode)
                id == toHex(partyId)
                sig == sign_setPartyRaw(country, id, roles, operator, signer)
            IN SubmitTx("setPartyRaw",
                        setPartyRawParams(signer, country, id, roles, operator, sig), <<sig>>)
    /\ UNCHANGED <<mode, wallet, ledgerVars>>

setPartyModules(sender, receiver) ==
    /\ pc = "idle"
    /\ Begin("setPartyModules", <<sender, receiver>>)
    /\ IF ~verifyWritable THEN Fail("NotWritable")
       ELSE SubmitTx("setPartyModules", <<sender, receiver>>, <<>>)
    /\ UNCHANGED <<mode, wallet, ledgerVars>>

setPartyModulesRaw(sender, receiver, signer) ==
    /\ pc = "idle"
    /\ Begin("setPartyModulesRaw", <<sender, receiver, signer>>)
    /\ IF ~verifyWritable THEN Fail("NotWritable")
       ELSE IF ~ValidKey(signer) THEN Fail("SigningFailure")
       ELSE LET sig == sign_setPartyModulesRaw(sender, receiver, signer)
            IN SubmitTx("setPartyModulesRaw",
                        setPartyModulesRawParams(signer, sender, receiver, sig), <<sig>>)
    /\ UNCHANGED <<mode, wallet, ledgerVars>>

deleteParty ==
    /\ pc = "idle"
    /\ Begin("deleteParty", <<>>)
    /\ IF ~verifyWritable THEN Fail("NotWritable")
       ELSE SubmitTx("deleteParty", <<>>, <<>>)
    /\ UNCHANGED <<mode, wallet, ledgerVars>>

deletePartyRaw(signer) ==
    /\ pc = "idle"
    /\ Begin("deletePartyRaw", <<signer>>)
    /\ IF ~verifyWritable THEN Fail("NotWritable")
       ELSE IF ~ValidKey(signer) THEN Fail("SigningFailure")
       ELSE LET sig == sign_deletePartyRaw(signer)
            IN SubmitTx("deletePartyRaw", deletePartyRawParams(signer, sig), <<sig>>)
    /\ UNCHANGED <<mode, wallet, ledgerVars>>

\* return tx whatever tx.wait() did
TxWaitIgnored(inc) ==
    /\ outcome' = Value(txs[1])
    /\ pc' = "done"

\* await tx.wait(); return tx
TxWait(inc) ==
    /\ outcome' = IF inc THEN Value(txs[1]) ELSE Error("TransportFailure")
    /\ pc' = "done"

\* the continuation of every write method after its submission was accepted
WaitTx ==
    /\ pc = "waiting"
    /\ \E inc \in BOOLEAN :
         /\ included' = inc
         /\ TxWait(inc)
    /\ UNCHANGED <<mode, wallet, call, txs, sigs, reads, operators, idx, acc, ledgerVars>>

\* the promise has settled: the caller holds the outcome, the call's own values are
\* discarded, and the wrapper (mode, wallet) is as it was constructed
Settle ==
    /\ pc = "done"
    /\ call' = [op |-> "none", input |-> <<>>]
    /\ Finish(Pending, "idle", <<>>, <<>>, <<>>)
    /\ UNCHANGED <<mode, wallet, ledgerVars>>

WriteOps ==
    {"setNode", "setNodeRaw", "deleteNode", "deleteNodeRaw", "setParty", "setPartyRaw",
     "setPartyModules", "setPartyModulesRaw", "deleteParty", "deletePartyRaw"}
RawOps == {"setNodeRaw", "deleteNodeRaw", "setPartyRaw", "setPartyModulesRaw", "deletePartyRaw"}

SignerInputs == Keys \cup {BadKey}
AddressInputs == ValidAddresses \cup MalformedAddresses
CountryInputs == StringsOver(CountryAlphabet, MaxStrLen)
PartyIdInputs == StringsOver(PartyAlphabet, MaxStrLen)

----------------------------------------------------------------------------
(* The ledger's read interface and the type tables *)

\* types.Role[index], types.Module[index]: the name at that index, or undefined
RoleNames == <<"CPO", "EMSP", "HUB">>
ModuleNames == <<"cdrs", "commands", "locations">>
NameAt(names, index) ==
    IF index \in 0..(Len(names) - 1) THEN names[index + 1] ELSE "undefined"

\* what the ledger answers for an address with no party: zeroes
BlankDetails ==
    [countryCode |-> <<0, 0, 0, 0>>, partyId |-> <<0, 0, 0, 0, 0, 0>>, roles |-> <<>>,
     modulesSender |-> <<>>, modulesReceiver |-> <<>>,
     operatorAddress |-> ZeroAddress, operatorDomain |-> EmptyUrl]

\* party "DE"/"ABA" with its other fields populated, linked to `operator`
PopulatedDetails(operator) ==
    [countryCode |-> <<4, 4, 4, 5>>, partyId |-> <<4, 1, 4, 2, 4, 1>>, roles |-> <<1, 7>>,
     modulesSender |-> <<>>, modulesReceiver |-> <<2>>,
     operatorAddress |-> operator,
     operatorDomain |-> [origin |-> "https://node.example.org", rest |-> ""]]

\* getPartyDetailsByAddress(address) of the contract
getPartyDetailsByAddress(address) ==
    IF address \in Listable THEN partyOf[address] ELSE BlankDetails

\* the fields getPartyDetailsByOcpi(country, id) returns
OcpiView(address, d) ==
    [partyAddress |-> address, roles |-> d.roles, modulesSender |-> d.modulesSender,
     modulesReceiver |-> d.modulesReceiver, operatorAddress |-> d.operatorAddress,
     operatorDomain |-> d.operatorDomain]

\* getPartyDetailsByOcpi(country, id) of the contract: the party stored under the pair
getPartyDetailsByOcpi(country, id) ==
    LET match == {a \in Listable : partyOf[a].countryCode = country /\ partyOf[a].partyId = id}
    IN IF match = {} THEN {OcpiView(ZeroAddress, BlankDetails)}
       ELSE {OcpiView(a, partyOf[a]) : a \in match}

\* a read-transport call and its response
ReadOk(method, args, resp) == [method |-> method, args |-> args, ok |-> TRUE, resp |-> resp]
ReadFailed(method, args) == [method |-> method, args |-> args, ok |-> FALSE, resp |-> <<>>]

----------------------------------------------------------------------------
(* Read methods *)

\* Object.assign(target, source)
ObjectAssign(target, source) ==
    [k \in DOMAIN target \cup DOMAIN source |->
        IF k \in DOMAIN source THEN source[k] ELSE target[k]]

\* Registry.toPartyDetails
toPartyDetails(input) ==
    [countryCode |-> toUtf8String(input.countryCode),
     partyId |-> toUtf8String(input.partyId),
     address |-> input.partyAddress,
     roles |-> [i \in 1..Len(input.roles) |-> NameAt(RoleNames, input.roles[i])],
     modules |->
        [sender |-> [i \in 1..Len(input.modulesSender) |->
                        NameAt(ModuleNames, input.modulesSender[i])],
         receiver |-> [i \in 1..Len(input.modulesReceiver) |->
                        NameAt(ModuleNames, input.modulesReceiver[i])]],
     node |-> [operator |-> input.operatorAddress, url |-> input.operatorDomain]]

\* return node, without `|| undefined`
NodeAsReturned(node) == Value(node)

\* getNode: return node || undefined
NodeOrUndefined(node) == IF node # EmptyUrl THEN Value(node) ELSE Undefined

\* nodes.push without the `if (url)`
PushNodeAlways(nodes, operator, url) == Append(nodes, [operator |-> operator, url |-> url])

\* getAllNodes: if (url) { nodes.push({ operator, url }) }
PushNode(nodes, operator, url) ==
    IF url # EmptyUrl THEN Append(nodes, [operator |-> operator, url |-> url]) ELSE nodes

\* return result, without the zero-address test
PartyAsReturned(result) == Value(result)

\* getPartyByAddress, getPartyByOcpi: return result.node.operator !== "0x00..00" ? result : undefined
PartyOrUndefined(result) ==
    IF result.node.operator # ZeroAddress THEN Value(result) ELSE Undefined

\* getAllParties: if (result.operatorAddress !== "0x00..00") { details.push(toPartyDetails(...)) }
PushParty(details, address, result) ==
    IF result.operatorAddress # ZeroAddress
    THEN Append(details, toPartyDetails(ObjectAssign([partyAddress |-> address], result)))
    ELSE details

getNode(operator) ==
    /\ pc = "idle"
    /\ Begin("getNode", <<operator>>)
    /\ IF ~verifyAddress(operator) THEN Fail("InvalidArgument")
       ELSE \E ok \in BOOLEAN :
              IF ok
              THEN LET node == nodeOf[operator]
                   IN Finish(NodeOrUndefined(node), "done", <<>>, <<>>,
                             <<ReadOk("getNode", <<operator>>, node)>>)
              ELSE Finish(Error("TransportFailure"), "done", <<>>, <<>>,
                          <<ReadFailed("getNode", <<operator>>)>>)
    /\ UNCHANGED <<mode, wallet, ledgerVars>>

\* getAllNodes up to its first getNode: the operator list is read
getAllNodes ==
    /\ pc = "idle"
    /\ Begin("getAllNodes", <<>>)
    /\ \E ok \in BOOLEAN :
         IF ok
         THEN /\ reads' = <<ReadOk("getNodeOperators", <<>>, nodeOperators)>>
              /\ operators' = nodeOperators
              /\ idx' = 1
              /\ outcome' = IF nodeOperators = <<>> THEN Value(<<>>) ELSE Pending
              /\ pc' = IF nodeOperators = <<>> THEN "done" ELSE "loop"
         ELSE /\ reads' = <<ReadFailed("getNodeOperators", <<>>)>>
              /\ operators' = <<>>
              /\ idx' = 0
              /\ outcome' = Error("TransportFailure")
              /\ pc' = "done"
    /\ acc' = <<>>
    /\ txs' = <<>>
    /\ sigs' = <<>>
    /\ included' = FALSE
    /\ UNCHANGED <<mode, wallet, ledgerVars>>

\* one iteration of the loop of getAllNodes: the url of operators[idx] is read
getAllNodesStep ==
    /\ pc = "loop"
    /\ call.op = "getAllNodes"
    /\ LET operator == operators[idx]
       IN \E ok \in BOOLEAN :
            IF ok
            THEN LET url == nodeOf[operator]
                     nodes == PushNode(acc, operator, url)
                 IN /\ reads' = Append(reads, ReadOk("getNode", <<operator>>, url))
                    /\ acc' = nodes
                    /\ idx' = idx + 1
                    /\ outcome' = IF idx = Len(operators) THEN Value(nodes) ELSE outcome
                    /\ pc' = IF idx = Len(operators) THEN "done" ELSE "loop"
            ELSE /\ reads' = Append(reads, ReadFailed("getNode", <<operator>>))
                 /\ outcome' = Error("TransportFailure")
                 /\ pc' = "done"
                 /\ UNCHANGED <<acc, idx>>
    /\ UNCHANGED <<mode, wallet, call, txs, sigs, included, operators, ledgerVars>>

getPartyByAddress(address) ==
    /\ pc = "idle"
    /\ Begin("getPartyByAddress", <<address>>)
    /\ \E ok \in BOOLEAN :
         IF ok /\ address \in ValidAddresses
         THEN LET details == getPartyDetailsByAddress(address)
                  result == toPartyDetails(ObjectAssign([partyAddress |-> address], details))
              IN Finish(PartyOrUndefined(result), "done", <<>>, <<>>,
                        <<ReadOk("getPartyDetailsByAddress", <<address>>, details)>>)
         ELSE Finish(Error("TransportFailure"), "done", <<>>, <<>>,
                     <<ReadFailed("getPartyDetailsByAddress", <<address>>)>>)
    /\ UNCHANGED <<mode, wallet, ledgerVars>>

getPartyByOcpi(countryCode, partyId) ==
    /\ pc = "idle"
    /\ Begin("getPartyByOcpi", <<countryCode, partyId>>)
    /\ IF ~verifyStringLen(countryCode, 2) THEN Fail("InvalidArgument")
       ELSE IF ~verifyStringLen(partyId, 3) THEN Fail("InvalidArgument")
       ELSE LET country == toHex(countryCode)
                id == toHex(partyId)
            IN \E ok \in BOOLEAN :
                 IF ok
                 THEN \E details \in getPartyDetailsByOcpi(country, id) :
                        LET result == toPartyDetails(ObjectAssign(
                                          [countryCode |-> country, partyId |-> id], details))
                        IN Finish(PartyOrUndefined(result), "done", <<>>, <<>>,
                                  <<ReadOk("getPartyDetailsByOcpi", <<country, id>>, details)>>)
                 ELSE Finish(Error("TransportFailure"), "done", <<>>, <<>>,
                             <<ReadFailed("getPartyDetailsByOcpi", <<country, id>>)>>)
    /\ UNCHANGED <<mode, wallet, ledgerVars>>

\* getAllParties up to its first getPartyDetailsByAddress: the party list is read
getAllParties ==
    /\ pc = "idle"
    /\ Begin("getAllParties", <<>>)
    /\ \E ok \in BOOLEAN :
         IF ok
         THEN /\ reads' = <<ReadOk("getParties", <<>>, parties)>>
              /\ operators' = parties
              /\ idx' = 1
              /\ outcome' = IF parties = <<>> THEN Value(<<>>) ELSE Pending
              /\ pc' = IF parties = <<>> THEN "done" ELSE "loop"
         ELSE /\ reads' = <<ReadFailed("getParties", <<>>)>>
              /\ operators' = <<>>
              /\ idx' = 0
              /\ outcome' = Error("TransportFailure")
              /\ pc' = "done"
    /\ acc' = <<>>
    /\ txs' = <<>>
    /\ sigs' = <<>>
    /\ included' = FALSE
    /\ UNCHANGED <<mode, wallet, ledgerVars>>

\* one iteration of the loop of getAllParties: the details of operators[idx] are read
getAllPartiesStep ==
    /\ pc = "loop"
    /\ call.op = "getAllParties"
    /\ LET address == operators[idx]
       IN \E ok \in BOOLEAN :
            IF ok
            THEN LET result == getPartyDetailsByAddress(address)
                     details == PushParty(acc, address, result)
                 IN /\ reads' = Append(reads,
                                       ReadOk("getPartyDetailsByAddress", <<address>>, result))
                    /\ acc' = details
                    /\ idx' = idx + 1
                    /\ outcome' = IF idx = Len(operators) THEN Value(details) ELSE outcome
                    /\ pc' = IF idx = Len(operators) THEN "done" ELSE "loop"
            ELSE /\ reads' = Append(reads, ReadFailed("getPartyDetailsByAddress", <<address>>))
                 /\ outcome' = Error("TransportFailure")
                 /\ pc' = "done"
                 /\ UNCHANGED <<acc, idx>>
    /\ UNCHANGED <<mode, wallet, call, txs, sigs, included, operators, ledgerVars>>

----------------------------------------------------------------------------
(* Transactions of other clients, executed by the ledger between the reads *)

InList(list, a) == \E i \in 1..Len(list) : list[i] = a
Without(list, a) == SelectSeq(list, LAMBDA x : x # a)

LedgerUrls == [origin : Origins, rest : {""}]

\* a node listing is created or updated; the contract lists the operator
LedgerSetNode(operator, url) ==
    /\ InList(nodeOperators, operator) \/ Len(nodeOperators) < MaxListed
    /\ nodeOf' = [nodeOf EXCEPT ![operator] = url]
    /\ \E push \in BOOLEAN :
         /\ push => Len(nodeOperators) < MaxListed
         /\ ~push => InList(nodeOperators, operator)
         /\ nodeOperators' = IF push THEN Append(nodeOperators, operator) ELSE nodeOperators
    /\ UNCHANGED <<mode, wallet, callVars, partyOf, parties>>

\* a node listing is deleted; the operator may stay in the operator list
LedgerDeleteNode(operator) ==
    /\ nodeOf[operator] # EmptyUrl
    /\ nodeOf' = [nodeOf EXCEPT ![operator] = EmptyUrl]
    /\ \E keep \in BOOLEAN :
         nodeOperators' = IF keep THEN nodeOperators ELSE Without(nodeOperators, operator)
    /\ UNCHANGED <<mode, wallet, callVars, partyOf, parties>>

\* a party listing is created or updated
LedgerSetParty(address, details) ==
    /\ InList(parties, address) \/ Len(parties) < MaxListed
    /\ partyOf' = [partyOf EXCEPT ![address] = details]
    /\ \E push \in BOOLEAN :
         /\ push => Len(parties) < MaxListed
         /\ ~push => InList(parties, address)
         /\ parties' = IF push THEN Append(parties, address) ELSE parties
    /\ UNCHANGED <<mode, wallet, callVars, nodeOf, nodeOperators>>

\* a party listing is deleted; the address may stay in the party list
LedgerDeleteParty(address) ==
    /\ partyOf[address] # BlankDetails
    /\ partyOf' = [partyOf EXCEPT ![address] = BlankDetails]
    /\ \E keep \in BOOLEAN :
         parties' = IF keep THEN parties ELSE Without(parties, address)
    /\ UNCHANGED <<mode, wallet, callVars, nodeOf, nodeOperators>>

\* what a reader passes as countryCode and partyId
OcpiCountryInputs == StringsOver({100, 69}, MaxStrLen)
OcpiPartyIdInputs == StringsOver({97, 66}, MaxStrLen)

----------------------------------------------------------------------------
(* The constructor *)

\* new Registry(environment, signer)
Init ==
    /\ \E signer \in {NoKey} \cup Keys :
         /\ wallet = signer
         /\ mode = IF signer # NoKey THEN "r+w" ELSE "r"
    /\ pc = "idle"
    /\ call = [op |-> "none", input |-> <<>>]
    /\ outcome = Pending
    /\ txs = <<>>
    /\ sigs = <<>>
    /\ reads = <<>>
    /\ included = FALSE
    /\ operators = <<>>
    /\ idx = 0
    /\ acc = <<>>
    /\ nodeOf = [a \in ValidAddresses |-> EmptyUrl]
    /\ nodeOperators = <<>>
    /\ partyOf = [a \in Listable |-> BlankDetails]
    /\ parties = <<>>

NextWrite ==
    \/ pc = "idle" /\ \E d \in Domains : setNode(d)
    \/ pc = "idle" /\ \E d \in Domains, k \in SignerInputs : setNodeRaw(d, k)
    \/ deleteNode
    \/ pc = "idle" /\ \E k \in SignerInputs : deleteNodeRaw(k)
    \/ pc = "idle" /\ \E c \in CountryInputs, p \in PartyIdInputs, r \in RoleLists,
                          o \in AddressInputs : setParty(c, p, r, o)
    \/ pc = "idle" /\ \E c \in CountryInputs, p \in PartyIdInputs, r \in RoleLists,
                          o \in AddressInputs, k \in SignerInputs : setPartyRaw(c, p, r, o, k)
    \/ pc = "idle" /\ \E s \in ModuleLists, r \in ModuleLists : setPartyModules(s, r)
    \/ pc = "idle" /\ \E s \in ModuleLists, r \in ModuleLists, k \in SignerInputs :
                          setPartyModulesRaw(s, r, k)
    \/ deleteParty
    \/ pc = "idle" /\ \E k \in SignerInputs : deletePartyRaw(k)
    \/ WaitTx
    \/ Settle

SpecWrite == Init /\ [][NextWrite]_vars

NextNode ==
    \/ pc = "idle" /\ \E o \in AddressInputs : getNode(o)
    \/ getAllNodes
    \/ getAllNodesStep
    \/ \E o \in Listable, u \in LedgerUrls : LedgerSetNode(o, u)
    \/ \E o \in Listable : LedgerDeleteNode(o)
    \/ Settle

SpecNode == Init /\ [][NextNode]_vars

NextParty ==
    \/ pc = "idle" /\ \E a \in AddressInputs : getPartyByAddress(a)
    \/ pc = "idle" /\ \E c \in OcpiCountryInputs, p \in OcpiPartyIdInputs : getPartyByOcpi(c, p)
    \/ getAllParties
    \/ getAllPartiesStep
    \/ \E a \in Listable, o \in {ZeroAddress, Addr1} : LedgerSetParty(a, PopulatedDetails(o))
    \/ \E a \in Listable : LedgerDeleteParty(a)
    \/ Settle

SpecParty == Init /\ [][NextParty]_vars

\* The wrapper keeps nothing between calls (mode and wallet never change), so the
\* methods are checked in three groups: SpecWrite, SpecNode, SpecParty.
Next == NextWrite \/ NextNode \/ NextParty

Spec == Init /\ [][Next]_vars

----------------------------------------------------------------------------
(* Properties of the write methods, checked under SpecWrite *)

\* the key given as the `signer` argument of a raw method (its last argument)
SignerArg == call.input[Len(call.input)]

\* C1: on a wrapper constructed without a signer key (mode "r") every write method
\* throws the "no signer" error (NotWritable), and the call has issued no read, no
\* write-transport call and produced no signature.
C1_ReadOnlyWriteFailsFirst ==
    (mode = "r" /\ call.op \in WriteOps) =>
        /\ pc = "done"
        /\ outcome.kind = "error"
        /\ outcome.err = "NotWritable"
        /\ txs = <<>>
        /\ sigs = <<>>
        /\ reads = <<>>

\* a raw write with a valid signer key and valid arguments, refused in mode "r"
C1_Witness ==
    /\ mode = "r"
    /\ call.op = "setPartyRaw"
    /\ Len(call.input[1]) = 2
    /\ Len(call.input[2]) = 3
    /\ call.input[4] \in ValidAddresses
    /\ SignerArg \in Keys
    /\ pc = "done"
    /\ outcome.err = "NotWritable"

\* C3 (as claimed): for a url with a path or query given to setNodeRaw, the url
\* submitted (here: in a transaction that was included) and the url signed are both the
\* normalized origin, as setNode submits it.
C3_RawUrlIsOrigin ==
    \A i \in 1..Len(txs) :
        (txs[i].method = "setNodeRaw" /\ URLParses(call.input[1]) /\ call.input[1].rest # ""
            /\ included) =>
            /\ txs[i].params[2] = URLOrigin(call.input[1])
            /\ sigs[1].args[1] = URLOrigin(call.input[1])

\* C4: setParty and setPartyRaw submit (and setPartyRaw signs) the hex encoding of the
\* upper-cased countryCode and partyId, whatever the letter case of the input.
C4_UpperCasedBeforeEncoding ==
    \A i \in 1..Len(txs) :
        /\ txs[i].method = "setParty" =>
              /\ txs[i].params[1] = utf8ToHex(toUpperCase(call.input[1]))
              /\ txs[i].params[2] = utf8ToHex(toUpperCase(call.input[2]))
              /\ \A c \in 1..2 : toUtf8String(txs[i].params[1])[c] \notin 97..122
              /\ \A c \in 1..3 : toUtf8String(txs[i].params[2])[c] \notin 97..122
        /\ txs[i].method = "setPartyRaw" =>
              /\ txs[i].params[2] = utf8ToHex(toUpperCase(call.input[1]))
              /\ txs[i].params[3] = utf8ToHex(toUpperCase(call.input[2]))
              /\ sigs[1].args[1] = utf8ToHex(toUpperCase(call.input[1]))
              /\ sigs[1].args[2] = utf8ToHex(toUpperCase(call.input[2]))
              /\ \A c \in 1..2 : toUtf8String(txs[i].params[2])[c] \notin 97..122
              /\ \A c \in 1..3 : toUtf8String(txs[i].params[3])[c] \notin 97..122

\* setPartyRaw("dE", "aBa", ...) submitted as 0x4445 ("DE"), 0x414241 ("ABA")
C4_Witness ==
    /\ call.op = "setPartyRaw"
    /\ call.input[1] = <<100, 69>>
    /\ call.input[2] = <<97, 66, 97>>
    /\ Len(txs) = 1
    /\ txs[1].params[2] = <<4, 4, 4, 5>>
    /\ txs[1].params[3] = <<4, 1, 4, 2, 4, 1>>
    /\ sigs[1].args[1] = <<4, 4, 4, 5>>

C8_SubmitOnceNoRetry ==
    call.op \in WriteOps =>
        /\ Len(txs) <= 1
        /\ outcome.kind \in {"none", "value", "error"}
        /\ outcome.kind = "value" =>
              /\ included
              /\ Len(txs) = 1
              /\ outcome.value = txs[1]
        /\ (pc = "done" /\ Len(txs) = 1 /\ ~included) =>
              /\ outcome.kind = "error"
              /\ outcome.err = "TransportFailure"
        /\ pc = "waiting" => (Len(txs) = 1 /\ outcome.kind = "none")

\* a submitted setPartyModulesRaw whose submission or inclusion failed
C8_Witness ==
    /\ call.op = "setPartyModulesRaw"
    /\ pc = "done"
    /\ Len(txs) = 1
    /\ ~included
    /\ outcome.kind = "error"
    /\ outcome.err = "TransportFailure"

\* C9: in each of the five raw methods the operation arguments of the submitted call are
\* the arguments handed to the signing builder, in the same order, followed by the
\* signature that builder returned for that operation.
C9_SubmittedArgsAreSignedArgs ==
    \A i \in 1..Len(txs) :
        txs[i].method \in RawOps =>
            /\ Len(sigs) = 1
            /\ sigs[1].kind = txs[i].method
            /\ SubSeq(txs[i].params, 2, Len(txs[i].params) - 1) = sigs[1].args
            /\ txs[i].params[Len(txs[i].params)] = sigs[1]

\* a setPartyRaw submission awaiting inclusion
C9_Witness ==
    /\ call.op = "setPartyRaw"
    /\ pc = "waiting"
    /\ Len(txs) = 1
    /\ Len(sigs[1].args) = 4
    /\ sigs[1].args[3] = <<1, 7>>

----------------------------------------------------------------------------
(* Properties of the read methods, checked under SpecNode and SpecParty *)

\* the call was given a malformed address, a countryCode not of length 2 or a partyId
\* not of length 3
MalformedInput ==
    CASE call.op \in {"getNode", "getPartyByAddress"} -> call.input[1] \notin ValidAddresses
      [] call.op = "getPartyByOcpi" -> Len(call.input[1]) # 2 \/ Len(call.input[2]) # 3
      [] call.op \in {"setParty", "setPartyRaw"} ->
            \/ Len(call.input[1]) # 2
            \/ Len(call.input[2]) # 3
            \/ call.input[4] \notin ValidAddresses
      [] OTHER -> FALSE

\* C2 (as claimed): getNode, getPartyByAddress, getPartyByOcpi, setParty and setPartyRaw,
\* called with a malformed address, countryCode or partyId, fail with a validation error
\* (in mode "r" a write may fail as not writable instead) and issue no transport call.
C2_ValidationBeforeTransport ==
    MalformedInput =>
        /\ pc = "done"
        /\ outcome.kind = "error"
        /\ \/ outcome.err = "InvalidArgument"
           \/ call.op \in WriteOps /\ mode = "r" /\ outcome.err = "NotWritable"
        /\ reads = <<>>
        /\ txs = <<>>

\* number of answered reads of a getAll* loop whose response satisfies keep
Answered(keep(_)) == Cardinality({j \in 2..Len(reads) : reads[j].ok /\ keep(reads[j].resp)})

C7_UnlistedOperatorIsAbsent ==
    /\ (call.op = "getNode" /\ pc = "done" /\ call.input[1] \in ValidAddresses) =>
            /\ Len(reads) = 1
            /\ reads[1].ok => outcome.kind # "error"
            /\ (reads[1].ok /\ reads[1].resp = EmptyUrl) => outcome.kind = "undefined"
            /\ (reads[1].ok /\ reads[1].resp # EmptyUrl) =>
                  (outcome.kind = "value" /\ outcome.value = reads[1].resp)
    /\ call.op = "getAllNodes" =>
            /\ \A i \in 1..Len(acc) : acc[i].url # EmptyUrl
            /\ Len(acc) = Answered(LAMBDA resp : resp # EmptyUrl)
            /\ (pc = "done" /\ \A j \in 1..Len(reads) : reads[j].ok) => outcome.kind = "value"

\* getNode for an operator the ledger still lists after its listing was deleted
C7_Witness ==
    /\ call.op = "getNode"
    /\ pc = "done"
    /\ call.input[1] = Addr0
    /\ InList(nodeOperators, Addr0)
    /\ reads[1].ok
    /\ reads[1].resp = EmptyUrl
    /\ outcome.kind = "undefined"

\* C10: each iteration of getAllNodes reads the url of one operator of the list it read
\* first; if the ledger holds a url for that operator at that moment, the pair
\* (operator, that url) is appended; if it holds none (the listing was deleted
\* meanwhile), nothing is appended and the call does not fail; every entry has a
\* non-empty url and the list returned is the list so built.
C10_EntriesAreListingsWhenRead ==
    [][(pc = "loop" /\ call.op = "getAllNodes" /\ Len(reads') = Len(reads) + 1) =>
          LET o == operators[idx]
              answered == reads'[Len(reads')].ok
          IN /\ reads'[Len(reads')].args = <<o>>
             /\ (answered /\ nodeOf[o] # EmptyUrl) =>
                    acc' = Append(acc, [operator |-> o, url |-> nodeOf[o]])
             /\ (answered /\ nodeOf[o] = EmptyUrl) =>
                    (acc' = acc /\ outcome'.kind # "error")
             /\ \A i \in 1..Len(acc') : acc'[i].url # EmptyUrl
             /\ outcome'.kind = "value" => outcome'.value = acc'
             /\ answered => (pc' = "done" <=> idx = Len(operators))
      ]_vars

\* getAllNodes returned one entry of two listed operators: the first operator's listing
\* was gone when its url was read, and the ledger has moved on since the second was read
C10_Witness ==
    /\ call.op = "getAllNodes"
    /\ pc = "done"
    /\ Len(operators) = 2
    /\ Len(reads) = 3
    /\ reads[2].ok
    /\ reads[2].resp = EmptyUrl
    /\ outcome.kind = "value"
    /\ Len(outcome.value) = 1
    /\ outcome.value[1].operator = operators[2]
    /\ nodeOf[operators[2]] # outcome.value[1].url

====
